---- MODULE Spec2Model ----
(***************************************************************************)
(* Model of the Stream Deck recorder control loop of src/main.rs: the      *)
(* per-key press/release state machine that starts and stops recordings    *)
(* through the audio daemon, plays a finished recording on a tap and       *)
(* deletes it on a long hold.                                              *)
(*                                                                         *)
(* One action models one whole event handler of the loop.  The audio       *)
(* daemon, the filesystem, the clock and the user's fingers are the        *)
(* environment: their answers are inputs drawn with \E.                    *)
(***************************************************************************)
EXTENDS Integers, Sequences, FiniteSets, TLC

\* ------------------------------------------------------------------ bounds
\* Number of keys of the panel (device.kind().key_count()).  The two lowest
\* keys are bound, the highest one is the exit key.
KeyCount == 4
\* The clock runs from 0 to MaxTime seconds.
MaxTime == 3
\* Largest number of playback tasks running at the same time.
MaxPlay == 1

\* ------------------------------------------------------- program constants
\* Duration::from_secs(2), the tap/hold threshold.
HoldSecs == 2

\* Option<u8>::None of active_recording_key.
NoKey == -1

\* No path: the daemon is not capturing.
NoPath == "none"

Keys == 0 .. (KeyCount - 1)

\* button_files: key index -> recording path.
button_files == (0 :> "/tmp/recording_A.wav") @@ (1 :> "/tmp/recording_B.wav")

BoundKeys == DOMAIN button_files

Paths == {button_files[k] : k \in BoundKeys}

\* An exit key that is one past the last key of the panel.
LastKey_offbyone == KeyCount

\* The exit key: device.kind().key_count() - 1.
LastKey == KeyCount - 1

\* The images a key can show: cleared, img_rec_off, img_rec_on, img_play.
Images == {"blank", "rec_off", "rec_on", "play"}

\* --------------------------------------------------------- daemon client
\* One token of a response line: a word or a piece of whitespace.
Whitespace == {" ", "\n"}

\* The response lines the daemon may answer with (before trimming).
ResponseLines ==
    { <<"Listening", "\n">>,
      <<"Recording", "\n">>,
      <<" ", "OK", "\n">>,
      <<"\n">> }

\* What can happen to one call of send_audio_command.
\*   connect_fail  : UnixStream::connect fails
\*   write_fail    : write_all fails
\*   shutdown_fail : writer.shutdown fails
\*   read_fail     : read_line fails
\*   eof           : the daemon closes the connection without a line
\*   line          : the daemon answers with one line
Replies ==
    { [kind |-> k, line |-> <<>>] :
          k \in {"connect_fail", "write_fail", "shutdown_fail", "read_fail", "eof"} }
    \cup { [kind |-> "line", line |-> l] : l \in ResponseLines }

RECURSIVE TrimStart(_)
\* str::trim, leading part.
TrimStart(s) ==
    IF s # <<>> /\ Head(s) \in Whitespace THEN TrimStart(Tail(s)) ELSE s

RECURSIVE TrimEnd(_)
\* str::trim, trailing part.
TrimEnd(s) ==
    IF s # <<>> /\ s[Len(s)] \in Whitespace
    THEN TrimEnd(SubSeq(s, 1, Len(s) - 1))
    ELSE s

\* response.trim()
Trim(s) == TrimEnd(TrimStart(s))

\* A contains that takes any non-empty status for a match.
Contains_any(s, word) == s # <<>>

\* status.contains(word)
Contains(s, word) == \E i \in 1 .. Len(s) : s[i] = word

\* A send_audio_command that drops the error of read_line.
send_audio_command_noreaderr(command, r) ==
    IF r.kind \in {"connect_fail", "write_fail", "shutdown_fail"}
    THEN [ok |-> FALSE, text |-> <<>>]
    ELSE [ok |-> TRUE, text |-> Trim(r.line)]

\* io::Result<String> of send_audio_command for one reply of the daemon.
send_audio_command(command, r) ==
    IF r.kind = "connect_fail" THEN [ok |-> FALSE, text |-> <<>>]
    ELSE IF r.kind = "write_fail" THEN [ok |-> FALSE, text |-> <<>>]
    ELSE IF r.kind = "shutdown_fail" THEN [ok |-> FALSE, text |-> <<>>]
    ELSE IF r.kind = "read_fail" THEN [ok |-> FALSE, text |-> <<>>]
    ELSE [ok |-> TRUE, text |-> Trim(r.line)]

\* One call of send_audio_command made by a handler: the command, what the
\* daemon did with it, and the result the call returned.
Sent(cmd, arg, reply, ok) == [cmd |-> cmd, arg |-> arg, reply |-> reply, ok |-> ok]

\* ------------------------------------------------------------------ state
VARIABLES
    pc,                     \* "loop", "exited" (after break), "done"
    active_recording_key,   \* Option<u8>
    pending_delete,         \* HashMap<u8, Instant>
    files,                  \* path -> does the file exist
    icon,                   \* key -> image last written with set_button_image
    unflushed,              \* keys with a set_button_image not yet flushed
    pressed,                \* bound key -> is the key physically down
    now,                    \* the clock, in seconds
    daemonRec,              \* the path the daemon is capturing into
    playing,                \* number of running playback tasks
    last                    \* what the last handled event did

vars == <<pc, active_recording_key, pending_delete, files, icon, unflushed,
          pressed, now, daemonRec, playing, last>>

\* An insert that restarts the timer of every entry.
Insert_restarts(m, key, t) == [k \in DOMAIN m \cup {key} |-> t]

\* pending_delete.insert(key, t)
Insert(m, key, t) ==
    [k \in DOMAIN m \cup {key} |-> IF k = key THEN t ELSE m[k]]

\* A remove that leaves the entry in the map.
Remove_keep(m, key) == m

\* pending_delete.remove(&key), the map that is left
Remove(m, key) == [k \in DOMAIN m \ {key} |-> m[k]]

\* The record of one handled event: the event, the branch taken, the state
\* of the key before the event, and the side effects of the handler: the
\* commands sent, the keys whose icon was written, the result of
\* fs::remove_file and the path a playback task was spawned for.
Last(type, key, branch, sent, writes, fs, spawned) ==
    [type |-> type, key |-> key, branch |-> branch,
     sent |-> sent, writes |-> writes, fs |-> fs, spawned |-> spawned,
     preActive |-> active_recording_key,
     preFile |-> IF key \in BoundKeys THEN files[button_files[key]] ELSE FALSE,
     preHeld |-> key \in DOMAIN pending_delete,
     elapsed |-> IF key \in DOMAIN pending_delete
                 THEN now - pending_delete[key] ELSE -1]

\* device.set_button_image(key, image): the image waits for the next flush.
set_button_image(waiting, key) == waiting \cup {key}

\* device.clear_all_button_images()
clear_all_button_images(waiting) == waiting \cup Keys

\* A flush that sends nothing to the panel.
flush_skipped(waiting) == waiting

\* device.flush(): every image that waits goes to the panel.
flush(waiting) == {}

\* The image main shows for a bound key before the loop starts.
initial_image(path_exists) == IF path_exists THEN "play" ELSE "rec_off"

Init ==
    /\ pc = "loop"
    /\ active_recording_key = NoKey
    /\ pending_delete = <<>>
    /\ files \in [Paths -> BOOLEAN]
    /\ icon = [k \in Keys |-> IF k \in BoundKeys
                              THEN initial_image(files[button_files[k]])
                              ELSE "blank"]
    /\ unflushed = flush(BoundKeys)
    /\ pressed = [k \in BoundKeys |-> FALSE]
    /\ now = 0
    /\ daemonRec = NoPath
    /\ playing = 0
    /\ last = [type |-> "none", key |-> NoKey, branch |-> "none",
               sent |-> <<>>, writes |-> {}, fs |-> "none", spawned |-> NoPath,
               preActive |-> NoKey, preFile |-> FALSE, preHeld |-> FALSE,
               elapsed |-> -1]

\* An existence check that never finds the file.
path_exists_never(path) == FALSE

\* path.exists()
path_exists(path) == files[path]

\* ----------------------------------------------------------- ButtonDown
\* The file exists: arm the hold timer and show the hold indicator.
DownHold(key) ==
    /\ key \in BoundKeys
    /\ path_exists(button_files[key])
    /\ pending_delete' = Insert(pending_delete, key, now)
    /\ icon' = [icon EXCEPT ![key] = "rec_on"]
    /\ unflushed' = flush(set_button_image(unflushed, key))
    /\ last' = Last("down", key, "hold", <<>>, {key}, "none", NoPath)
    /\ UNCHANGED <<active_recording_key, files, daemonRec, playing>>

\* The daemon accepted START <path>: it captures into path from now on.
DaemonStart(path) == daemonRec' = path

\* No file: ask STATUS, and START when the daemon is listening.
DownStatus(key) ==
    /\ key \in BoundKeys
    /\ ~path_exists(button_files[key])
    /\ \E st \in Replies :
         LET status == send_audio_command("STATUS", st)
             s1 == Sent("STATUS", "", st, status.ok)
         IN  IF status.ok
             THEN IF Contains(status.text, "Listening")
                  THEN \E sr \in Replies :
                         LET path == button_files[key]
                             res == send_audio_command("START", sr)
                             s2 == Sent("START", path, sr, res.ok)
                         IN  IF res.ok
                             THEN /\ active_recording_key' = key
                                  /\ icon' = [icon EXCEPT ![key] = "rec_on"]
                                  /\ unflushed' = flush(set_button_image(unflushed, key))
                                  /\ DaemonStart(path)
                                  /\ last' = Last("down", key, "start_ok", <<s1, s2>>,
                                                  {key}, "none", NoPath)
                                  /\ UNCHANGED <<pending_delete, files, playing>>
                             ELSE /\ last' = Last("down", key, "start_err", <<s1, s2>>,
                                                  {}, "none", NoPath)
                                  /\ UNCHANGED <<active_recording_key, pending_delete,
                                                 files, icon, unflushed, daemonRec,
                                                 playing>>
                  ELSE /\ last' = Last("down", key, "not_listening", <<s1>>,
                                       {}, "none", NoPath)
                       /\ UNCHANGED <<active_recording_key, pending_delete, files,
                                      icon, unflushed, daemonRec, playing>>
             ELSE /\ last' = Last("down", key, "status_err", <<s1>>, {}, "none", NoPath)
                  /\ UNCHANGED <<active_recording_key, pending_delete, files, icon,
                                 unflushed, daemonRec, playing>>

\* The key has no binding: nothing happens.
DownUnbound(key) ==
    /\ key \notin BoundKeys
    /\ last' = Last("down", key, "unbound", <<>>, {}, "none", NoPath)
    /\ UNCHANGED <<active_recording_key, pending_delete, files, icon, unflushed,
                   daemonRec, playing>>

\* The panel reports a change of a key: a press-down of a key that is up, a
\* release of a key that is down.  The handlers of the keys without a
\* binding look at no state, so only the bound keys are followed.
IsDown(key) == key \in BoundKeys /\ pressed[key]

\* The keys that are down after the update of key.
SetPressed(key, down) ==
    IF key \in BoundKeys THEN [pressed EXCEPT ![key] = down] ELSE pressed

\* DeviceStateUpdate::ButtonDown(key)
ButtonDown(key) ==
    /\ pc = "loop"
    /\ ~IsDown(key)
    /\ pressed' = SetPressed(key, TRUE)
    /\ UNCHANGED <<pc, now>>
    /\ \/ DownHold(key)
       \/ DownStatus(key)
       \/ DownUnbound(key)

\* ------------------------------------------------------------- ButtonUp
\* The released key is the last key of the panel: break 'infinite.
UpExit(key) ==
    /\ key = LastKey
    /\ pc' = "exited"
    /\ last' = Last("up", key, "exit", <<>>, {}, "none", NoPath)
    /\ UNCHANGED <<active_recording_key, pending_delete, files, icon, unflushed,
                   daemonRec, playing>>

\* The daemon accepted STOP: the capture it has open is saved to its file.
DaemonStop ==
    /\ files' = [p \in Paths |-> files[p] \/ p = daemonRec]
    /\ daemonRec' = NoPath

\* A STOP branch that gives up the loop when the send fails.
UpStop_breaks(key) ==
    /\ key # LastKey
    /\ active_recording_key = key
    /\ \E sr \in Replies :
         LET res == send_audio_command("STOP", sr)
             s1 == Sent("STOP", "", sr, res.ok)
         IN  IF res.ok
             THEN /\ active_recording_key' = NoKey
                  /\ icon' = [icon EXCEPT ![key] = "play"]
                  /\ unflushed' = flush(set_button_image(unflushed, key))
                  /\ DaemonStop
                  /\ pc' = pc
                  /\ last' = Last("up", key, "stop_ok", <<s1>>, {key}, "none", NoPath)
                  /\ UNCHANGED <<pending_delete, playing>>
             ELSE /\ pc' = "exited"
                  /\ last' = Last("up", key, "stop_err", <<s1>>, {}, "none", NoPath)
                  /\ UNCHANGED <<active_recording_key, pending_delete, files, icon,
                                 unflushed, daemonRec, playing>>

\* The released key is the recording key: send STOP.
UpStop(key) ==
    /\ key # LastKey
    /\ active_recording_key = key
    /\ UNCHANGED pc
    /\ \E sr \in Replies :
         LET res == send_audio_command("STOP", sr)
             s1 == Sent("STOP", "", sr, res.ok)
         IN  IF res.ok
             THEN /\ active_recording_key' = NoKey
                  /\ icon' = [icon EXCEPT ![key] = "play"]
                  /\ unflushed' = flush(set_button_image(unflushed, key))
                  /\ DaemonStop
                  /\ last' = Last("up", key, "stop_ok", <<s1>>, {key}, "none", NoPath)
                  /\ UNCHANGED <<pending_delete, playing>>
             ELSE /\ unflushed' = flush(unflushed)
                  /\ last' = Last("up", key, "stop_err", <<s1>>, {}, "none", NoPath)
                  /\ UNCHANGED <<active_recording_key, pending_delete, files, icon,
                                 daemonRec, playing>>

\* What fs::remove_file can answer: done, or refused (permission).
RemoveAnswers == {"ok", "denied"}

\* fs::remove_file(path): TRUE when the file was removed.  A file that does
\* not exist cannot be removed.
remove_file(path, answer) == files[path] /\ answer = "ok"

\* A threshold test that excludes the boundary.
held_long_strict(hold_duration) == hold_duration > HoldSecs

\* hold_duration >= Duration::from_secs(2)
held_long(hold_duration) == hold_duration >= HoldSecs

\* A delete that shows the empty image whatever remove_file answered.
delete_image_always_empty(removed) == "rec_off"

\* The image shown after the delete attempt.
delete_image(removed) == IF removed THEN "rec_off" ELSE "play"

\* The released key was held for at least the threshold: delete the file.
UpDelete(key) ==
    /\ key # LastKey
    /\ active_recording_key # key
    /\ key \in DOMAIN pending_delete
    /\ held_long(now - pending_delete[key])
    /\ pending_delete' = Remove(pending_delete, key)
    /\ UNCHANGED pc
    /\ IF key \in BoundKeys
       THEN \E answer \in RemoveAnswers :
              LET path == button_files[key] IN
              IF remove_file(path, answer)
              THEN /\ files' = [files EXCEPT ![path] = FALSE]
                   /\ icon' = [icon EXCEPT ![key] = delete_image(TRUE)]
                   /\ last' = Last("up", key, "delete_ok", <<>>, {key},
                                   "delete_ok", NoPath)
              ELSE /\ files' = files
                   /\ icon' = [icon EXCEPT ![key] = delete_image(FALSE)]
                   /\ last' = Last("up", key, "delete_err", <<>>, {key},
                                   "delete_err", NoPath)
       ELSE /\ last' = Last("up", key, "delete_unbound", <<>>, {}, "none", NoPath)
            /\ UNCHANGED <<files, icon>>
    /\ unflushed' = flush(IF key \in BoundKeys
                          THEN set_button_image(unflushed, key)
                          ELSE unflushed)
    /\ UNCHANGED <<active_recording_key, daemonRec, playing>>

\* The released key was held for less than the threshold: play the file.
UpPlay(key) ==
    /\ key # LastKey
    /\ active_recording_key # key
    /\ key \in DOMAIN pending_delete
    /\ ~held_long(now - pending_delete[key])
    /\ pending_delete' = Remove(pending_delete, key)
    /\ UNCHANGED pc
    /\ IF key \in BoundKeys
       THEN /\ playing < MaxPlay
            /\ playing' = playing + 1
            /\ last' = Last("up", key, "play", <<>>, {key}, "none", button_files[key])
       ELSE /\ playing' = playing
            /\ last' = Last("up", key, "play", <<>>, {key}, "none", NoPath)
    /\ icon' = [icon EXCEPT ![key] = "play"]
    /\ unflushed' = flush(set_button_image(unflushed, key))
    /\ UNCHANGED <<active_recording_key, files, daemonRec>>

\* A release that puts the empty image on a key it has nothing to do for.
UpIgnored_resets(key) ==
    /\ key # LastKey
    /\ active_recording_key # key
    /\ key \notin DOMAIN pending_delete
    /\ icon' = [icon EXCEPT ![key] = "rec_off"]
    /\ unflushed' = flush(set_button_image(unflushed, key))
    /\ last' = Last("up", key, "ignored", <<>>, {key}, "none", NoPath)
    /\ UNCHANGED <<pc, active_recording_key, pending_delete, files,
                   daemonRec, playing>>

\* Any other release: nothing happens.
UpIgnored(key) ==
    /\ key # LastKey
    /\ active_recording_key # key
    /\ key \notin DOMAIN pending_delete
    /\ last' = Last("up", key, "ignored", <<>>, {}, "none", NoPath)
    /\ UNCHANGED <<pc, active_recording_key, pending_delete, files, icon,
                   unflushed, daemonRec, playing>>

\* DeviceStateUpdate::ButtonUp(key)
ButtonUp(key) ==
    /\ pc = "loop"
    /\ key \in BoundKeys => pressed[key]
    /\ pressed' = SetPressed(key, FALSE)
    /\ UNCHANGED now
    /\ \/ UpExit(key)
       \/ UpStop(key)
       \/ UpDelete(key)
       \/ UpPlay(key)
       \/ UpIgnored(key)

\* Any other update of the panel: the `_ => {}` arm.
OtherUpdate ==
    /\ pc = "loop"
    /\ last' = Last("other", NoKey, "other", <<>>, {}, "none", NoPath)
    /\ UNCHANGED <<pc, active_recording_key, pending_delete, files, icon,
                   unflushed, pressed, now, daemonRec, playing>>

\* reader.read fails: break.
ReadError ==
    /\ pc = "loop"
    /\ pc' = "exited"
    /\ UNCHANGED <<active_recording_key, pending_delete, files, icon, unflushed,
                   pressed, now, daemonRec, playing, last>>

\* After the loop: clear_all_button_images and flush.
Cleanup ==
    /\ pc = "exited"
    /\ pc' = "done"
    /\ icon' = [k \in Keys |-> "blank"]
    /\ unflushed' = flush(clear_all_button_images(unflushed))
    /\ UNCHANGED <<active_recording_key, pending_delete, files, pressed, now,
                   daemonRec, playing, last>>

\* ---------------------------------------------------------- environment
\* One second passes.
Tick ==
    /\ pc = "loop"
    /\ now < MaxTime
    /\ now' = now + 1
    /\ UNCHANGED <<pc, active_recording_key, pending_delete, files, icon,
                   unflushed, pressed, daemonRec, playing, last>>

\* The daemon creates the file it is capturing into before STOP.
DaemonWrite ==
    /\ pc = "loop"
    /\ daemonRec # NoPath
    /\ ~files[daemonRec]
    /\ files' = [files EXCEPT ![daemonRec] = TRUE]
    /\ UNCHANGED <<pc, active_recording_key, pending_delete, icon, unflushed,
                   pressed, now, daemonRec, playing, last>>

\* A playback task whose end puts the empty image on the bound keys.
PlaybackDone_resets_icons ==
    /\ playing > 0
    /\ playing' = playing - 1
    /\ icon' = [k \in Keys |-> IF k \in BoundKeys THEN "rec_off" ELSE icon[k]]
    /\ UNCHANGED <<pc, active_recording_key, pending_delete, files,
                   unflushed, pressed, now, daemonRec, last>>

\* A playback task ends, with success or with a failure that is only logged.
PlaybackDone ==
    /\ playing > 0
    /\ playing' = playing - 1
    /\ UNCHANGED <<pc, active_recording_key, pending_delete, files, icon,
                   unflushed, pressed, now, daemonRec, last>>

Next ==
    \/ \E key \in Keys : ButtonDown(key)
    \/ \E key \in Keys : ButtonUp(key)
    \/ OtherUpdate
    \/ ReadError
    \/ Cleanup
    \/ Tick
    \/ DaemonWrite
    \/ PlaybackDone

Spec == Init /\ [][Next]_vars

TypeOK ==
    /\ pc \in {"loop", "exited", "done"}
    /\ active_recording_key \in Keys \cup {NoKey}
    /\ DOMAIN pending_delete \subseteq Keys
    /\ \A k \in DOMAIN pending_delete : pending_delete[k] \in 0 .. MaxTime
    /\ files \in [Paths -> BOOLEAN]
    /\ icon \in [Keys -> Images]
    /\ unflushed \subseteq Keys
    /\ pressed \in [BoundKeys -> BOOLEAN]
    /\ now \in 0 .. MaxTime
    /\ daemonRec \in Paths \cup {NoPath}
    /\ playing \in 0 .. MaxPlay

\* ================================================================ claims
\* The step is the handling of a press-down of the bound key k.
DownStep(k) == k \in BoundKeys /\ ~pressed[k] /\ pressed'[k]

\* The step is the handling of a release of the bound key k.
UpStep(k) == k \in BoundKeys /\ pressed[k] /\ ~pressed'[k]

\* The daemon answered with a line that contains "Listening".
SaysListening(r) ==
    r.kind = "line" /\ \E i \in 1 .. Len(r.line) : r.line[i] = "Listening"

\* The send did not get through: no connection, or a failed write or read.
SendFailed(r) ==
    r.kind \in {"connect_fail", "write_fail", "shutdown_fail", "read_fail"}

\* The daemon answered with a line.
Answered(r) == r.kind = "line"

\* The commands of one kind among the sends of a handler.
SentOf(sent, cmd) == {i \in 1 .. Len(sent) : sent[i].cmd = cmd}

\* Key k is Empty: bound, file absent, not the active key.
IsEmpty(k) ==
    k \in BoundKeys /\ ~files[button_files[k]] /\ active_recording_key # k

\* Key k is in HasFile state: bound, file present, not the active key.
HasFile(k) ==
    k \in BoundKeys /\ files[button_files[k]] /\ active_recording_key # k

\* Key k is shown as recording: the recording image on a key nobody holds
\* down (on a key that is held down the same image is the hold indicator).
ShownRecording(k) == icon[k] = "rec_on" /\ ~IsDown(k)

\* C1: at most one key is recording at any time: the keys that are the
\* active key or are shown as recording are at most one.
C1_AtMostOneRecording ==
    Cardinality({k \in Keys : k = active_recording_key \/ ShownRecording(k)}) <= 1

\* C2: a failed STOP leaves the active key and its recording icon; every
\* release of the active key sends STOP; and the active key keeps its value
\* until a release of that key whose STOP succeeds clears it.
C2_ActiveKeyKept ==
    [][ \A k \in Keys \ {LastKey} :
          active_recording_key = k =>
            /\ \/ active_recording_key' = k
               \/ /\ active_recording_key' = NoKey
                  /\ UpStep(k)
                  /\ SentOf(last'.sent, "STOP") # {}
                  /\ \A i \in SentOf(last'.sent, "STOP") : ~SendFailed(last'.sent[i].reply)
            /\ UpStep(k) =>
                 /\ Len(last'.sent) = 1
                 /\ last'.sent[1].cmd = "STOP"
                 /\ SendFailed(last'.sent[1].reply) =>
                      /\ active_recording_key' = k
                      /\ icon'[k] = "rec_on"
      ]_vars

\* The image a bound key must show when nobody holds it down.
ExpectedImage(k) ==
    IF k = active_recording_key THEN "rec_on"
    ELSE IF files[button_files[k]] THEN "play"
    ELSE "rec_off"

\* Every bound key that is not held down shows the expected image.
IconsConsistent ==
    \A k \in BoundKeys : ~pressed[k] => icon[k] = ExpectedImage(k)

\* C3: at startup and after every handled event the icons of the bound keys
\* that are not held down agree with the active key and the files.
C3_IconsConsistent ==
    /\ IconsConsistent
    /\ [][ (\E k \in BoundKeys : DownStep(k) \/ UpStep(k))
             => IconsConsistent' ]_vars

\* C6: a press-down on the active key does nothing: no command, no hold
\* entry, no icon write, same active key.
C6_ActivePressNoOp ==
    [][ \A k \in Keys :
          (DownStep(k) /\ active_recording_key = k) =>
            /\ last'.sent = <<>>
            /\ pending_delete' = pending_delete
            /\ last'.writes = {}
            /\ active_recording_key' = active_recording_key
      ]_vars

\* C4: a press-down on an Empty key whose STATUS is not answered with
\* "Listening" sends no START and leaves the active key, the hold entries
\* and every icon as they were.
C4_NotListeningNoOp ==
    [][ \A k \in BoundKeys :
          ( /\ DownStep(k)
            /\ IsEmpty(k)
            /\ \A i \in SentOf(last'.sent, "STATUS") :
                 ~SaysListening(last'.sent[i].reply) )
          => /\ SentOf(last'.sent, "START") = {}
             /\ active_recording_key' = active_recording_key
             /\ pending_delete' = pending_delete
             /\ icon' = icon
      ]_vars

\* An Empty key was pressed and the daemon answered STATUS with another line.
C4_Witness ==
    /\ last.type = "down"
    /\ last.key \in BoundKeys
    /\ ~last.preFile
    /\ last.preActive # last.key
    /\ Len(last.sent) = 1
    /\ last.sent[1].cmd = "STATUS"
    /\ last.sent[1].reply.line = <<"Recording", "\n">>
    /\ active_recording_key = last.preActive

C7_TapOrHold ==
    [][ \A k \in Keys :
          ( /\ UpStep(k)
            /\ k \in DOMAIN pending_delete
            /\ active_recording_key # k )
          => /\ k \notin DOMAIN pending_delete'
             /\ now - pending_delete[k] >= 2 =>
                  /\ last'.fs # "none"
                  /\ last'.spawned = NoPath
                  /\ playing' = playing
             /\ now - pending_delete[k] < 2 =>
                  /\ last'.spawned = button_files[k]
                  /\ playing' = playing + 1
                  /\ last'.fs = "none"
                  /\ files' = files
      ]_vars

\* A key was released exactly 2 seconds after its press and its file is gone.
C7_Witness ==
    /\ last.type = "up"
    /\ last.preHeld
    /\ last.preFile
    /\ last.preActive # last.key
    /\ last.elapsed = 2
    /\ last.fs = "delete_ok"
    /\ ~files[button_files[last.key]]

\* C8: in the delete branch a successful deletion leaves no file and the
\* empty image, a failed one leaves the file and the play image; either way
\* the hold entry is gone, and a file is only ever deleted by the release of
\* a key that was held for the threshold.
C8_DeleteOutcome ==
    [][ /\ \A k \in BoundKeys :
             ( /\ UpStep(k)
               /\ k \in DOMAIN pending_delete
               /\ active_recording_key # k
               /\ now - pending_delete[k] >= 2 )
             => /\ last'.fs \in {"delete_ok", "delete_err"}
                /\ last'.fs = "delete_ok" =>
                     /\ ~files'[button_files[k]]
                     /\ icon'[k] = "rec_off"
                /\ last'.fs = "delete_err" =>
                     /\ files'[button_files[k]] = files[button_files[k]]
                     /\ files[button_files[k]]
                     /\ icon'[k] = "play"
                /\ k \notin DOMAIN pending_delete'
        /\ \A k \in BoundKeys :
             (last'.fs # "none" /\ last'.key = k /\ last' # last)
             => /\ UpStep(k)
                /\ k \in DOMAIN pending_delete
                /\ now - pending_delete[k] >= 2
        /\ \A k \in BoundKeys :
             (files[button_files[k]] /\ ~files'[button_files[k]])
             => UpStep(k) /\ last'.fs = "delete_ok"
      ]_vars

\* A long hold was released and the deletion was refused.
C8_Witness ==
    /\ last.type = "up"
    /\ last.preHeld
    /\ last.elapsed >= 2
    /\ last.fs = "delete_err"
    /\ files[button_files[last.key]]
    /\ icon[last.key] = "play"
    /\ last.key \notin DOMAIN pending_delete

\* C9: the press-down and the release of a key in HasFile state send no
\* command to the daemon and leave the active key as it was.
C9_HasFileNoCommand ==
    [][ \A k \in BoundKeys :
          ( \/ DownStep(k) /\ HasFile(k)
            \/ UpStep(k) /\ HasFile(k) /\ k \in DOMAIN pending_delete )
          => /\ last'.sent = <<>>
             /\ active_recording_key' = active_recording_key
             /\ daemonRec' = daemonRec
      ]_vars

\* A key with a file was pressed and released as a tap while another key
\* was recording.
C9_Witness ==
    /\ last.type = "up"
    /\ last.preHeld
    /\ last.preFile
    /\ last.spawned = button_files[last.key]
    /\ last.sent = <<>>
    /\ last.preActive \in BoundKeys \ {last.key}
    /\ active_recording_key = last.preActive

\* What the handlers look at, and show, of key k.
KeyView(k) ==
    [file |-> files[button_files[k]],
     held |-> k \in DOMAIN pending_delete,
     active |-> active_recording_key = k,
     pressed |-> pressed[k],
     icon |-> icon[k]]

\* The view of a bound key that never had a file, as main sets it up.
FreshKeyView ==
    [file |-> FALSE, held |-> FALSE, active |-> FALSE, pressed |-> FALSE,
     icon |-> initial_image(FALSE)]

\* C10: after a successful hold-delete the key looks like a key that never
\* had a file, and a press-down on a key that looks so asks STATUS and sends
\* START when the daemon is listening.
C10_DeletedIsFresh ==
    [][ \A k \in BoundKeys :
          /\ (UpStep(k) /\ files[button_files[k]] /\ ~files'[button_files[k]])
             => KeyView(k)' = FreshKeyView
          /\ (DownStep(k) /\ KeyView(k) = FreshKeyView)
             => /\ Len(last'.sent) >= 1
                /\ last'.sent[1].cmd = "STATUS"
                /\ SaysListening(last'.sent[1].reply) =>
                     /\ Len(last'.sent) = 2
                     /\ last'.sent[2].cmd = "START"
                     /\ last'.sent[2].arg = button_files[k]
      ]_vars

\* The file of a key was deleted by a hold and the key looks fresh.
C10_Witness ==
    /\ last.type = "up"
    /\ last.fs = "delete_ok"
    /\ last.preFile
    /\ last.key \in BoundKeys
    /\ KeyView(last.key) = FreshKeyView

\* The highest-indexed key of the panel.
HighestKey == KeyCount - 1

\* The step is the handling of an event, of the given type, of a key that
\* has no binding.
UnboundStep(type, k) ==
    /\ k \notin BoundKeys
    /\ last' # last
    /\ last'.type = type
    /\ last'.key = k

\* C11: a release of the highest-indexed key ends the loop at once: it
\* sends nothing, deletes nothing, plays nothing, writes no icon and leaves
\* the active key and the holds alone; after the loop has ended no event is
\* handled any more.
C11_ExitGesture ==
    [][ /\ UnboundStep("up", HighestKey) =>
             /\ pc' = "exited"
             /\ last'.sent = <<>>
             /\ last'.fs = "none"
             /\ files' = files
             /\ last'.spawned = NoPath
             /\ playing' = playing
             /\ last'.writes = {}
             /\ icon' = icon
             /\ active_recording_key' = active_recording_key
             /\ pending_delete' = pending_delete
        /\ pc # "loop" =>
             /\ pc' # "loop"
             /\ last' = last
             /\ pressed' = pressed
             /\ active_recording_key' = active_recording_key
             /\ pending_delete' = pending_delete
      ]_vars

\* The highest key was released while a key was recording and another key
\* was held, and the loop has ended.
C11_Witness ==
    /\ pc = "exited"
    /\ last.type = "up"
    /\ last.key = HighestKey
    /\ active_recording_key \in BoundKeys
    /\ DOMAIN pending_delete \ {active_recording_key} # {}

\* The step is a tap release of key k.
TapRelease(k) ==
    /\ UpStep(k)
    /\ k \in DOMAIN pending_delete
    /\ active_recording_key # k
    /\ now - pending_delete[k] < 2

\* C12: a tap release starts one playback task for the path of the key and
\* shows the play image in the same step; events are handled while playback
\* tasks run; the end of a playback task changes neither the active key,
\* the holds nor an icon.
C12_PlaybackDetached ==
    [][ /\ \A k \in BoundKeys :
             TapRelease(k) =>
               /\ last'.spawned = button_files[k]
               /\ playing' = playing + 1
               /\ icon'[k] = "play"
               /\ pc' = "loop"
        /\ playing' < playing =>
             /\ playing' = playing - 1
             /\ active_recording_key' = active_recording_key
             /\ pending_delete' = pending_delete
             /\ icon' = icon
             /\ pc' = pc
             /\ last' = last
      ]_vars

\* A START was sent and answered while a playback task was running.
C12_Witness ==
    /\ playing > 0
    /\ pc = "loop"
    /\ last.type = "down"
    /\ last.branch = "start_ok"
    /\ active_recording_key = last.key

\* A handler met a failure: a send that failed, a STATUS that was not
\* answered with "Listening", or a refused deletion.
MetFailure(l) ==
    \/ \E i \in 1 .. Len(l.sent) :
         \/ SendFailed(l.sent[i].reply)
         \/ l.sent[i].cmd = "STATUS" /\ ~SaysListening(l.sent[i].reply)
    \/ l.fs = "delete_err"

NoLine(r) == r.kind \in {"connect_fail", "write_fail", "eof"}

\* C14: a send that got no response line returns an error, and a START or
\* STOP that got no response line neither sets nor clears the active key.
C14_NoLineIsError ==
    [][ last' # last =>
          \A i \in 1 .. Len(last'.sent) :
            NoLine(last'.sent[i].reply) =>
              /\ ~last'.sent[i].ok
              /\ last'.sent[i].cmd \in {"START", "STOP"} =>
                   active_recording_key' = active_recording_key
      ]_vars

\* C15: no handler returns with an image that was set and not flushed:
\* between two events nothing waits for a flush.
C15_AlwaysFlushed == unflushed = {}

\* A release wrote the icon of its key, and nothing waits for a flush.
C15_Witness ==
    /\ last.type = "up"
    /\ last.writes = {last.key}
    /\ icon[last.key] = "play"
    /\ unflushed = {}

\* C16: a key that has a hold entry is held down: every release of a key
\* removes its entry.
C16_HeldOnlyWhilePressed ==
    \A k \in DOMAIN pending_delete : IsDown(k)

\* The handler of the step did nothing at all.
Ignored ==
    /\ last'.sent = <<>>
    /\ last'.spawned = NoPath
    /\ playing' = playing
    /\ last'.fs = "none"
    /\ files' = files
    /\ last'.writes = {}
    /\ icon' = icon
    /\ unflushed' = unflushed
    /\ active_recording_key' = active_recording_key
    /\ pending_delete' = pending_delete
    /\ daemonRec' = daemonRec
    /\ pc' = pc

\* C17: a press-down or a release of a key without a binding (the release
\* of the highest key apart), and a release of a bound key that is neither
\* the active key nor held, does nothing.
C17_OthersIgnored ==
    [][ /\ \A k \in Keys \ BoundKeys :
             (UnboundStep("down", k) \/ (k # HighestKey /\ UnboundStep("up", k)))
             => Ignored
        /\ \A k \in BoundKeys :
             ( /\ UpStep(k)
               /\ active_recording_key # k
               /\ k \notin DOMAIN pending_delete )
             => Ignored
      ]_vars

\* A bound key that was pressed while the daemon was busy is released, while
\* the other key is recording.
C17_Witness ==
    /\ last.type = "up"
    /\ last.key \in BoundKeys
    /\ ~last.preHeld
    /\ last.preActive \in BoundKeys \ {last.key}
    /\ active_recording_key = last.preActive
    /\ icon[last.key] = "rec_off"

\* C18: no START is sent while a key is the active key.  The active key is
\* set exactly between a START and the next STOP that were sent with
\* success, so this says that the STARTs and STOPs sent with success
\* alternate, beginning with a START.
C18_StartStopAlternate ==
    [][ (last' # last /\ active_recording_key # NoKey)
          => SentOf(last'.sent, "START") = {}
      ]_vars

\* C20: the handling of an event of key k leaves the icon, the hold entry
\* with its instant, and the file of every other key as they were.
C20_OtherKeysUntouched ==
    [][ \A k \in Keys :
          ( \/ DownStep(k)
            \/ UpStep(k)
            \/ UnboundStep("down", k)
            \/ UnboundStep("up", k) )
          => \A j \in Keys \ {k} :
               /\ icon'[j] = icon[j]
               /\ (j \in DOMAIN pending_delete') = (j \in DOMAIN pending_delete)
               /\ j \in DOMAIN pending_delete => pending_delete'[j] = pending_delete[j]
               /\ j \in BoundKeys => files'[button_files[j]] = files[button_files[j]]
      ]_vars

\* Two keys were held at once with different press instants; one was
\* released after a long hold and lost its file, the other is still held
\* with its own instant.
C20_Witness ==
    /\ last.type = "up"
    /\ last.fs = "delete_ok"
    /\ \E j \in DOMAIN pending_delete :
         /\ j # last.key
         /\ IsDown(j)
         /\ files[button_files[j]]
         /\ now - pending_delete[j] < last.elapsed

\* The release of the active key k whose STOP the daemon accepts.
StopAccepted(k) ==
    /\ ButtonUp(k)
    /\ active_recording_key = k
    /\ active_recording_key' = NoKey

\* The loop handles what the panel delivers; the user keeps pressing and
\* releasing the bound keys; of the STOPs sent again and again for a key,
\* the daemon accepts one in the end; every playback task ends.
LiveSpec ==
    /\ Spec
    /\ WF_vars(PlaybackDone)
    /\ \A k \in BoundKeys :
         /\ WF_vars(ButtonDown(k))
         /\ SF_vars(ButtonUp(k))
         /\ SF_vars(StopAccepted(k))

\* C19: once key k is the active key, in the end (unless the loop ends) the
\* active key is cleared and k shows the play image; as long as k is the
\* active key it shows the recording image.
C19_StopRetryLive ==
    \A k \in BoundKeys :
      /\ (active_recording_key = k)
           ~> (pc # "loop" \/ (active_recording_key = NoKey /\ icon[k] = "play"))
      /\ [](active_recording_key = k /\ pc = "loop" => icon[k] = "rec_on")

====
